---- MODULE Spec2Model ----
(***************************************************************************)
(* The interactive shell of the in-browser terminal (class PgShell):       *)
(* the prompt/read controller, the command dispatcher and the part of the  *)
(* line editor they rest on.                                               *)
(*                                                                         *)
(* JavaScript is single threaded: every action below is one macro-task     *)
(* (an input chunk, a timer callback, a call of a public method) run to    *)
(* completion, followed by the micro-tasks it queued (the continuation of  *)
(* prompt() after its await).  The shell is written as operators over a    *)
(* record of the session's fields, so that a handler that calls other      *)
(* handlers (a pasted block, '!!') threads the state as the code does.     *)
(*                                                                         *)
(* A line is a sequence of characters; a character is a one-character      *)
(* string, and the control bytes that have no TLA+ escape carry a name     *)
(* ("ESC" is 0x1B, "^C" is 0x03).                                          *)
(***************************************************************************)
EXTENDS Integers, Sequences, FiniteSets, TLC

(* ------------------------------ bounds -------------------------------- *)

\* capacity of the history (ShellOptions.historySize, 30 by default)
HistorySize == 3

\* ShellOptions.maxAutocompleteEntries (100 by default)
MaxAutocompleteEntries == 2

\* longest line the user edits key by key (a paste onto an empty line may
\* be longer)
MaxLineLen == 2

\* longest line of the tokenizer's specification, where a chunk of three
\* characters is put into a line that is not empty
MaxTokenLineLen == 4

\* enable() timers pending at the same time
MaxTimers == 1

\* operations that have called disable() and not yet enable()
MaxOps == 2

\* command handlers started by the dispatcher and still running
MaxRunning == 2

\* char reads asked and never answered
MaxCharReads == 1

\* reads of the tty that are going to throw
MaxReadFaults == 2

\* send events dispatched on document
MaxSends == 3

(* ----------------------------- characters ----------------------------- *)

CR == "\r"

LF == "\n"

TAB == "\t"

ESC == "ESC"

CTRL_C == "^C"

\* "\x7F", "\x08", "\x04": the erase keys
BACKSPACE == "DEL"

CTRL_H == "^H"

CTRL_D == "^D"

\* "\x01", "\x02", "\x05", "\x06", "\x0b", "\x15"
CTRL_A == "^A"

CTRL_B == "^B"

CTRL_E == "^E"

CTRL_F == "^F"

CTRL_K == "^K"

CTRL_U == "^U"

\* "\x07", "\x0e", "\x10"
CTRL_G == "^G"

CTRL_N == "^N"

CTRL_P == "^P"

Whitespace == {" ", LF, CR, TAB}

\* ord < 32 || ord === 0x7f
ControlChars ==
  {CR, LF, TAB, CTRL_C, BACKSPACE, CTRL_H, CTRL_D, CTRL_A, CTRL_B, CTRL_E,
   CTRL_F, CTRL_K, CTRL_U, CTRL_G, CTRL_N, CTRL_P}

\* the ANSI escape sequences of the cursor keys
LEFT_ARROW == <<ESC, "[", "D">>

RIGHT_ARROW == <<ESC, "[", "C">>

DELETE == <<ESC, "[", "3", "~">>

END == <<ESC, "[", "F">>

HOME == <<ESC, "[", "H">>

UP_ARROW == <<ESC, "[", "A">>

DOWN_ARROW == <<ESC, "[", "B">>

\* ALT+LEFT, ALT+RIGHT and CTRL+BACKSPACE
ALT_LEFT == <<ESC, "b">>

ALT_RIGHT == <<ESC, "f">>

CTRL_BACKSPACE == <<ESC, BACKSPACE>>

\* PgCommand: the command names
BUILD == <<"b", "u", "i", "l", "d">>

CLEAR == <<"c", "l", "e", "a", "r">>

CONNECT == <<"c", "o", "n", "n", "e", "c", "t">>

DEPLOY == <<"d", "e", "p", "l", "o", "y">>

HELP == <<"h", "e", "l", "p">>

SOLANA == <<"s", "o", "l", "a", "n", "a">>

SPL_TOKEN == <<"s", "p", "l", "-", "t", "o", "k", "e", "n">>

SUGAR == <<"s", "u", "g", "a", "r">>

RUN_LAST_CMD == <<"!", "!">>

\* PkgName
SOLANA_CLI == "solana-cli"

SPL_TOKEN_CLI == "spl-token-cli"

SUGAR_CLI == "sugar-cli"

\* PgTerminal.PROMPT_PREFIX and PgTerminal.WAITING_INPUT_PROMPT_PREFIX
PROMPT_PREFIX == "$ "

WAITING_INPUT_PROMPT_PREFIX == "> "

(* ------------------------------ strings ------------------------------- *)

\* String.prototype.trim
RECURSIVE TrimLeft(_)
TrimLeft(s) ==
  IF s # <<>> /\ Head(s) \in Whitespace THEN TrimLeft(Tail(s)) ELSE s

RECURSIVE TrimRight(_)
TrimRight(s) ==
  IF s # <<>> /\ s[Len(s)] \in Whitespace
  THEN TrimRight(SubSeq(s, 1, Len(s) - 1))
  ELSE s

Trim(s) == TrimRight(TrimLeft(s))

\* s.split(" ").at(0): the characters before the first space
RECURSIVE FirstToken(_)
FirstToken(s) ==
  IF s = <<>> \/ Head(s) = " " THEN <<>> ELSE <<Head(s)>> \o FirstToken(Tail(s))

\* cmd.trim().split(" ")?.at(0)
CmdName(cmd) == FirstToken(Trim(cmd))

\* String.prototype.startsWith
StartsWith(s, p) == Len(p) <= Len(s) /\ SubSeq(s, 1, Len(p)) = p

\* data.replace(/[\r\n]+/g, "\r")
RECURSIVE NormalizeNewlines(_)
NormalizeNewlines(s) ==
  IF s = <<>> THEN <<>>
  ELSE IF Head(s) \in {CR, LF}
       THEN IF Len(s) > 1 /\ s[2] \in {CR, LF}
            THEN NormalizeNewlines(Tail(s))
            ELSE <<CR>> \o NormalizeNewlines(Tail(s))
       ELSE <<Head(s)>> \o NormalizeNewlines(Tail(s))

\* the characters of the lines, in the order of their UTF-16 code units
CodeOrder ==
  <<TAB, LF, CR, " ", "!", "(", ")", "-", "Y", "a", "b", "c", "d", "e", "g",
    "h", "i", "k", "l", "n", "o", "p", "r", "s", "t", "u", "y">>

CharCode(c) == CHOOSE i \in 1..Len(CodeOrder) : CodeOrder[i] = c

\* a < b as Array.prototype.sort compares two strings without a comparator
RECURSIVE StringLess(_, _)
StringLess(a, b) ==
  IF b = <<>> THEN FALSE
  ELSE IF a = <<>> THEN TRUE
  ELSE IF Head(a) = Head(b) THEN StringLess(Tail(a), Tail(b))
  ELSE CharCode(Head(a)) < CharCode(Head(b))

\* Array.prototype.sort of strings: a stable insertion of each element
\* after those that are not greater
RECURSIVE InsertSorted(_, _)
InsertSorted(sorted, x) ==
  IF sorted = <<>> THEN <<x>>
  ELSE IF StringLess(x, Head(sorted)) THEN <<x>> \o sorted
  ELSE <<Head(sorted)>> \o InsertSorted(Tail(sorted), x)

RECURSIVE Sort(_)
Sort(xs) ==
  IF xs = <<>> THEN <<>>
  ELSE InsertSorted(Sort(SubSeq(xs, 1, Len(xs) - 1)), xs[Len(xs)])

(* ------------------------------- state -------------------------------- *)

VARIABLES
  active,            \* PgShell._active
  waitingForInput,   \* PgShell._waitingForInput
  processCount,      \* PgShell._processCount
  loadedPkgs,        \* PgShell._loadedPkgs: the package names mapped to true
  activePrompt,      \* PgShell._activePrompt
  activeCharPrompt,  \* PgShell._activeCharPrompt
  input,             \* PgTty: the input line
  cursor,            \* PgTty: the cursor offset in the input line
  promptShown,       \* PgTty: the visible line starts with the prompt prefix
  charReads,         \* char PendingReads issued by PgTty.readChar, unresolved
  entries,           \* PgShellHistory: the entries, oldest first
  histCursor,        \* PgShellHistory: the traversal cursor
  timers,            \* the enable() timers pending, in the order they were set
  listeners,         \* TERMINAL_WAIT_FOR_INPUT listeners registered on document
  running,           \* command handlers started that have yet to call enable()
  disabledOps,       \* operations that called disable() and owe an enable()
  walletConnected,   \* PgWallet: the playground wallet is connected
  readFaults,        \* PgTty: the next reads that throw instead of returning
  ev,                \* what the last macro-task did
  listening,         \* useSendAndReceiveCustomEvent: handleSend is registered
  calls,             \* the send events dispatched, and what cb did for each
  receives           \* the receive events dispatched, in order

\* the shell, its tty, its history and the record of the last macro-task
shellVars == <<active, waitingForInput, processCount, loadedPkgs, activePrompt,
               activeCharPrompt, input, cursor, promptShown, charReads,
               entries, histCursor, timers, listeners, running, disabledOps,
               walletConnected, readFaults, ev>>

\* the shell, and the hook with its listener and the events on document
vars == <<shellVars, listening, calls, receives>>

\* the fields of the shell, its tty and its history, without the record of
\* the last macro-task
sessionVars == <<active, waitingForInput, processCount, loadedPkgs,
                 activePrompt, activeCharPrompt, input, cursor, promptShown,
                 charReads, entries, histCursor, timers, listeners, running,
                 disabledOps, walletConnected, readFaults>>

\* a PendingRead slot: empty (undefined), or holding a read whose promise
\* is pending (settled = FALSE) or was resolved (settled = TRUE)
NoPrompt == [set |-> FALSE, settled |-> FALSE, prefix |-> ""]

NewPrompt(prefix) == [set |-> TRUE, settled |-> FALSE, prefix |-> prefix]

\* what a macro-task did, reset at the start of each
NoEv ==
  [op |-> "init",      \* the entry point that ran
   arg |-> <<>>,       \* its argument (the input chunk)
   resolves |-> 0,     \* resolver calls on a pending line PendingRead
   reresolves |-> 0,   \* resolver calls on a line PendingRead already resolved
   reads |-> 0,        \* line PendingReads issued by prompt()
   enables |-> 0,      \* enable() calls (timers set)
   activations |-> 0,  \* times enable()'s delayed step set active
   pushes |-> 0,       \* PgShellHistory.push calls
   evicted |-> 0,      \* entries the history dropped to stay within its size
   completes |-> 0,    \* handleReadComplete calls
   resolvedWith |-> <<>>, \* the lines the line resolvers were called with
   dispatched |-> 0,   \* _parseCommand calls from handleReadComplete
   name |-> <<>>,      \* cmdName of the _parseCommand call of the line
   branch |-> "",      \* the branch of _parseCommand that ran
   loads |-> 0,        \* PgPkg.loadPkg calls
   logs |-> 0,         \* PgPkg.loadPkg calls that asked for the log
   fired |-> 0,        \* calls of the external-wait listener
   delivered |-> <<>>, \* the lines waitForUserInput's promise resolved with
   charResolves |-> 0, \* resolver calls on a char PendingRead
   charAsked |-> 0,    \* PgTty.readChar calls
   listed |-> 0,       \* PgTty.printWide calls
   shown |-> <<>>,     \* the candidates the last PgTty.printWide call printed
   resumed |-> 0,      \* printAndRestartPrompt's resume calls
   printed |-> 0,      \* println calls
   caught |-> 0,       \* exceptions of PgTty.read caught by prompt()
   edits |-> 0,        \* _handleData calls that passed its guard
   inserts |-> 0,      \* _handleCursorInsert calls
   clamped |-> 0,      \* decrements, erases and moves held back at a limit
   rejected |-> FALSE, \* waitForUserInput rejected
   thrown |-> FALSE]   \* an exception left the macro-task

Ev(op, arg) == [NoEv EXCEPT !.op = op, !.arg = arg]

\* the session as a record, the last macro-task's record replaced
State(op, arg) ==
  [active |-> active, waitingForInput |-> waitingForInput,
   processCount |-> processCount, loadedPkgs |-> loadedPkgs,
   activePrompt |-> activePrompt, activeCharPrompt |-> activeCharPrompt,
   input |-> input, cursor |-> cursor, promptShown |-> promptShown,
   charReads |-> charReads, entries |-> entries, histCursor |-> histCursor,
   timers |-> timers, listeners |-> listeners, running |-> running,
   disabledOps |-> disabledOps, walletConnected |-> walletConnected,
   readFaults |-> readFaults, microtasks |-> 0, ev |-> Ev(op, arg)]

(* ------------------------ PgShellHistory, PgTty ----------------------- *)

\* PgShellHistory.push: appends a non-empty line, evicts the oldest entry
\* beyond the capacity, resets the traversal cursor
HistoryPush(s, line) ==
  LET added == IF line = <<>> THEN s.entries ELSE Append(s.entries, line)
      kept == IF Len(added) > HistorySize THEN Tail(added) ELSE added
  IN [s EXCEPT !.entries = kept, !.histCursor = Len(kept),
               !.ev.pushes = @ + 1,
               !.ev.evicted = IF Len(added) > HistorySize THEN @ + 1 ELSE @]

\* PgShellHistory.getPrevious: steps the traversal cursor towards the older
\* entries, not past the oldest; the value it returns is the entry stepped
\* to, or none (here the empty line, which is never an entry) when the
\* cursor was at the oldest entry already or the history is empty
HistoryPreviousValue(s) ==
  IF s.histCursor = 0 THEN <<>> ELSE s.entries[s.histCursor]

HistoryGetPrevious(s) ==
  [s EXCEPT !.histCursor = IF @ = 0 THEN 0 ELSE @ - 1]

\* PgShellHistory.getNext: steps the traversal cursor towards the newer
\* entries, not past the position after the newest; the value it returns
\* is the entry stepped to, or none past the newest
HistoryNextValue(s) ==
  IF s.histCursor + 1 < Len(s.entries) THEN s.entries[s.histCursor + 2]
  ELSE <<>>

HistoryGetNext(s) ==
  [s EXCEPT !.histCursor = IF @ < Len(s.entries) THEN @ + 1 ELSE @]

\* PgTty.read: prints the prefix and starts a fresh, empty input line
TtyRead(s, prefix) ==
  [s EXCEPT !.input = <<>>, !.cursor = 0,
            !.promptShown = IF prefix # "" THEN TRUE ELSE @]

\* PgTty.print("\r\n"), PgTty.println, PgTty.clearLine, PgTty.clearTty and
\* PgTty.clear: the visible line no longer starts with the prompt
TtyNewLine(s) == [s EXCEPT !.promptShown = FALSE]

TtyPrintln(s) == [TtyNewLine(s) EXCEPT !.ev.printed = @ + 1]

\* PgTty.setInput: replaces the input line and renders prompt and line again
TtySetInput(s, newInput) ==
  [s EXCEPT !.input = newInput, !.promptShown = TRUE,
            !.cursor = IF @ > Len(newInput) THEN Len(newInput) ELSE @]

\* PgTty.setCursor and PgTty.setCursorDirectly
TtySetCursor(s, newCursor) == [s EXCEPT !.cursor = newCursor]

\* PgTty.readChar: prints the question and returns a char PendingRead
TtyReadChar(s) ==
  [s EXCEPT !.charReads = @ + 1, !.ev.charAsked = @ + 1]

\* PgTty.getInputStartsWithPrompt
GetInputStartsWithPrompt(s) == s.promptShown

\* PgWallet.checkIsPgConnected: the precondition of deploy, solana,
\* spl-token and sugar
CheckIsPgConnected(s) == s.walletConnected

(* ----------------------------- shell-utils ---------------------------- *)

\* hasTrailingWhitespace
HasTrailingWhitespace(s) == s # <<>> /\ s[Len(s)] \in Whitespace

\* the token the cursor is in: the characters after the last whitespace
RECURSIVE LastToken(_)
LastToken(s) ==
  IF s = <<>> \/ s[Len(s)] \in Whitespace THEN <<>>
  ELSE LastToken(SubSeq(s, 1, Len(s) - 1)) \o <<s[Len(s)]>>

\* collectAutocompleteCandidates with the shell's one provider, the history
\* entries: those that start with the token being completed
RECURSIVE FilterPrefix(_, _)
FilterPrefix(es, expr) ==
  IF es = <<>> THEN <<>>
  ELSE (IF StartsWith(Head(es), expr) THEN <<Head(es)>> ELSE <<>>)
       \o FilterPrefix(Tail(es), expr)

CollectAutocompleteCandidates(s, fragment) ==
  FilterPrefix(s.entries, LastToken(fragment))

\* closestLeftBoundary: the start of the nearest word that starts before
\* the offset, 0 when there is none; a word is a maximal run of characters
\* that are not whitespace
WordStarts(line) ==
  {p \in 0..(Len(line) - 1) :
     line[p + 1] \notin Whitespace /\ (p = 0 \/ line[p] \in Whitespace)}

ClosestLeftBoundary(line, offset) ==
  LET found == {p \in WordStarts(line) : p < offset}
  IN IF found = {} THEN 0
     ELSE CHOOSE p \in found : \A q \in found : q <= p

\* closestRightBoundary: the end of the nearest word that ends after the
\* offset, the length of the line when there is none
WordEnds(line) ==
  {p \in 1..Len(line) :
     line[p] \notin Whitespace
     /\ (p = Len(line) \/ line[p + 1] \in Whitespace)}

ClosestRightBoundary(line, offset) ==
  LET found == {p \in WordEnds(line) : p > offset}
  IN IF found = {} THEN Len(line)
     ELSE CHOOSE p \in found : \A q \in found : p <= q

\* isIncompleteInput: the continuation predicate (an unbalanced bracket)
RECURSIVE Count(_, _)
Count(s, c) ==
  IF s = <<>> THEN 0 ELSE (IF Head(s) = c THEN 1 ELSE 0) + Count(Tail(s), c)

IsIncompleteInput(s) == Count(s, "(") > Count(s, ")")

(* ------------------------------- PgShell ------------------------------ *)

\* _incrementProcessCount
IncrementProcessCount(s) == [s EXCEPT !.processCount = @ + 1]

\* _decrementProcessCount without its test of _processCount
DecrementProcessCount_NoTest(s) == [s EXCEPT !.processCount = @ - 1]

\* _decrementProcessCount
DecrementProcessCount(s) ==
  IF s.processCount # 0
  THEN [s EXCEPT !.processCount = @ - 1]
  ELSE [s EXCEPT !.ev.clamped = @ + 1]

\* disable() that does nothing when the shell is already inactive
Disable_OnlyWhenActive(s) ==
  IF s.active THEN [IncrementProcessCount(s) EXCEPT !.active = FALSE] ELSE s

\* disable()
Disable(s) == [IncrementProcessCount(s) EXCEPT !.active = FALSE]

\* enable(): only sets the timer; who is the caller, for the bookkeeping
\* of the operations ("op": paired with a disable(), "cmd": not)
Enable(s, who) ==
  [s EXCEPT !.timers = Append(@, who), !.ev.enables = @ + 1]

\* prompt() without its test of the outstanding read
Prompt_NoGuard(s) ==
  LET promptText == IF s.waitingForInput
                    THEN WAITING_INPUT_PROMPT_PREFIX
                    ELSE PROMPT_PREFIX
  IN [TtyRead(s, promptText) EXCEPT
        !.activePrompt = NewPrompt(promptText),
        !.active = TRUE,
        !.ev.reads = @ + 1]

\* prompt() whose catch prints the message and does not call prompt() again
Prompt_NoRetry(s) ==
  IF s.activePrompt.set /\ GetInputStartsWithPrompt(s) THEN s
  ELSE IF s.readFaults > 0
  THEN TtyPrintln([s EXCEPT !.readFaults = @ - 1, !.ev.caught = @ + 1])
  ELSE LET promptText == IF s.waitingForInput
                         THEN WAITING_INPUT_PROMPT_PREFIX
                         ELSE PROMPT_PREFIX
       IN [TtyRead(s, promptText) EXCEPT
             !.activePrompt = NewPrompt(promptText),
             !.active = TRUE,
             !.ev.reads = @ + 1]

\* prompt(), up to its await; a read that throws leaves the tty and the
\* fields as they were, and the catch prints the message and calls prompt()
RECURSIVE Prompt(_)
Prompt(s) ==
  IF s.activePrompt.set /\ GetInputStartsWithPrompt(s) THEN s
  ELSE IF s.readFaults > 0
  THEN Prompt(TtyPrintln([s EXCEPT !.readFaults = @ - 1, !.ev.caught = @ + 1]))
  ELSE LET promptText == IF s.waitingForInput
                         THEN WAITING_INPUT_PROMPT_PREFIX
                         ELSE PROMPT_PREFIX
       IN [TtyRead(s, promptText) EXCEPT
             !.activePrompt = NewPrompt(promptText),
             !.active = TRUE,
             !.ev.reads = @ + 1]

\* prompt() that pushes nothing to the history after its await
PromptContinuation_NoPush(s) == s

\* prompt(), after its await: runs as a micro-task once the read resolved
PromptContinuation(s) == HistoryPush(s, Trim(s.input))

\* the delayed step of enable() that activates the shell without prompt()
EnableTimer_NoPrompt(s) ==
  LET d == DecrementProcessCount(s)
  IN IF d.processCount = 0
     THEN [d EXCEPT !.active = TRUE, !.ev.activations = @ + 1]
     ELSE d

\* the delayed step of enable()
EnableTimer(s) ==
  LET d == DecrementProcessCount(s)
  IN IF d.processCount = 0
     THEN TtyRead(Prompt([d EXCEPT !.active = TRUE,
                                   !.ev.activations = @ + 1]), "")
     ELSE d

\* a command handler that runs outside the shell was started
StartHandler(s) == [s EXCEPT !.running = @ + 1]

\* a package command that asks for the log on every load
LoadPkg_AlwaysLog(s, pkg) ==
  StartHandler([s EXCEPT !.loadedPkgs = @ \cup {pkg},
                         !.ev.loads = @ + 1, !.ev.logs = @ + 1])

\* the first steps of the async body of a package command, up to its await
LoadPkg(s, pkg) ==
  LET initial == pkg \notin s.loadedPkgs
  IN StartHandler([s EXCEPT
                     !.loadedPkgs = IF initial THEN @ \cup {pkg} ELSE @,
                     !.ev.loads = @ + 1,
                     !.ev.logs = IF initial THEN @ + 1 ELSE @])

\* _parseCommand, every branch but RUN_LAST_CMD
ParseBranch(s0, cmd) ==
  LET cmdName == CmdName(cmd)
      s == [s0 EXCEPT !.ev.branch = "other"]
  IN CASE cmdName = BUILD -> StartHandler([s EXCEPT !.ev.branch = "build"])
       [] cmdName = CLEAR ->
            Prompt(TtyNewLine([s EXCEPT !.ev.branch = "clear"]))
       [] cmdName = CONNECT -> StartHandler([s EXCEPT !.ev.branch = "connect"])
       [] cmdName = DEPLOY ->
            IF CheckIsPgConnected(s)
            THEN StartHandler([s EXCEPT !.ev.branch = "deploy"])
            ELSE [s EXCEPT !.ev.branch = "deploy-skipped"]
       [] cmdName = HELP ->
            Enable(TtyPrintln([s EXCEPT !.ev.branch = "help"]), "cmd")
       [] cmdName = SOLANA ->
            IF CheckIsPgConnected(s)
            THEN LoadPkg([s EXCEPT !.ev.branch = "solana"], SOLANA_CLI)
            ELSE [s EXCEPT !.ev.branch = "solana-skipped"]
       [] cmdName = SPL_TOKEN ->
            IF CheckIsPgConnected(s)
            THEN LoadPkg([s EXCEPT !.ev.branch = "spl-token"], SPL_TOKEN_CLI)
            ELSE [s EXCEPT !.ev.branch = "spl-token-skipped"]
       [] cmdName = SUGAR ->
            IF CheckIsPgConnected(s)
            THEN LoadPkg([s EXCEPT !.ev.branch = "sugar"], SUGAR_CLI)
            ELSE StartHandler([s EXCEPT !.ev.branch = "sugar-skipped"])
       [] OTHER ->
            IF cmdName # <<>>
            THEN Enable(TtyPrintln([s EXCEPT !.ev.branch = "not-found"]), "cmd")
            ELSE Enable([s EXCEPT !.ev.branch = "empty"], "cmd")

\* _parseCommand whose RUN_LAST_CMD branch returns without enable() when
\* the history is empty
ParseCommand_NoEnable(s, cmd) ==
  IF CmdName(cmd) = RUN_LAST_CMD
  THEN IF s.entries = <<>>
       THEN TtyPrintln([s EXCEPT !.ev.branch = "no-previous"])
       ELSE LET lastCmd == s.entries[Len(s.entries)]
            IN IF CmdName(lastCmd) = RUN_LAST_CMD
               THEN [s EXCEPT !.ev.branch = "overflow", !.ev.thrown = TRUE]
               ELSE ParseBranch(s, lastCmd)
  ELSE ParseBranch(s, cmd)

\* _parseCommand
ParseCommand(s0, cmd) ==
  LET s == [s0 EXCEPT !.ev.name = CmdName(cmd)]
  IN IF CmdName(cmd) = RUN_LAST_CMD
     THEN IF s.entries = <<>>
          THEN Enable(TtyPrintln([s EXCEPT !.ev.branch = "no-previous"]), "cmd")
          ELSE LET lastCmd == s.entries[Len(s.entries)]
               IN IF CmdName(lastCmd) = RUN_LAST_CMD
                  \* _parseCommand(lastCmd) calls itself without end: the
                  \* engine throws a RangeError when the stack is exhausted
                  THEN [s EXCEPT !.ev.branch = "overflow", !.ev.thrown = TRUE]
                  ELSE ParseBranch(s, lastCmd)
     ELSE ParseBranch(s, cmd)

\* the event's listener without its reset of _waitingForInput
DispatchWaitEvent_KeepWaiting(s) ==
  IF s.listeners > 0
  THEN [s EXCEPT !.listeners = 0,
                 !.ev.fired = @ + s.listeners,
                 !.ev.delivered = @ \o <<s.input>>]
  ELSE s

\* the TERMINAL_WAIT_FOR_INPUT event reaches every listener registered:
\* waitForUserInput's handleInput
DispatchWaitEvent(s) ==
  IF s.listeners > 0
  THEN [s EXCEPT !.waitingForInput = FALSE, !.listeners = 0,
                 !.ev.fired = @ + s.listeners,
                 !.ev.delivered = @ \o <<s.input>>]
  ELSE s

\* handleReadComplete that resolves the read but keeps it in _activePrompt
HandleReadComplete_KeepPrompt(s0, clearCmd) ==
  LET line == s0.input
      s == [s0 EXCEPT !.ev.completes = @ + 1]
      r == IF s.activePrompt.set
           THEN [s EXCEPT
                   !.activePrompt.settled = TRUE,
                   !.ev.resolvedWith = Append(@, line),
                   !.microtasks = IF s.activePrompt.settled THEN @ ELSE @ + 1,
                   !.ev.resolves = IF s.activePrompt.settled THEN @ ELSE @ + 1,
                   !.ev.reresolves =
                      IF s.activePrompt.settled THEN @ + 1 ELSE @]
           ELSE s
      off == [TtyNewLine(r) EXCEPT !.active = FALSE]
  IN IF off.waitingForInput
     THEN DispatchWaitEvent(off)
     ELSE ParseCommand([off EXCEPT !.ev.dispatched = @ + 1], line)

\* handleReadComplete
HandleReadComplete(s0, clearCmd) ==
  LET line == s0.input
      s == [s0 EXCEPT !.ev.completes = @ + 1]
      r == IF s.activePrompt.set
           THEN [s EXCEPT
                   !.activePrompt = NoPrompt,
                   !.ev.resolvedWith = Append(@, line),
                   !.microtasks = IF s.activePrompt.settled THEN @ ELSE @ + 1,
                   !.ev.resolves = IF s.activePrompt.settled THEN @ ELSE @ + 1,
                   !.ev.reresolves =
                      IF s.activePrompt.settled THEN @ + 1 ELSE @]
           ELSE s
      off == [TtyNewLine(r) EXCEPT !.active = FALSE]
  IN IF off.waitingForInput
     THEN DispatchWaitEvent(off)
     ELSE ParseCommand([off EXCEPT !.ev.dispatched = @ + 1], line)

\* waitForUserInput without its test of _waitingForInput
WaitForUserInput_NoGuard(s) ==
  LET w == Enable(TtyPrintln(TtyNewLine(
                [s EXCEPT !.waitingForInput = TRUE])), "cmd")
  IN [w EXCEPT !.listeners = @ + 1]

\* waitForUserInput
WaitForUserInput(s) ==
  IF s.waitingForInput THEN [s EXCEPT !.ev.rejected = TRUE]
  ELSE LET w == Enable(TtyPrintln(TtyNewLine(
                       [s EXCEPT !.waitingForInput = TRUE])), "cmd")
       IN [w EXCEPT !.listeners = @ + 1]

\* Math.min and Math.max
Min(a, b) == IF a < b THEN a ELSE b

Max(a, b) == IF a > b THEN a ELSE b

\* _handleCursorMove without its Math.min and Math.max
HandleCursorMove_NoLimit(s, dir) == TtySetCursor(s, s.cursor + dir)

\* _handleCursorMove
HandleCursorMove(s, dir) ==
  LET num == IF dir > 0 THEN Min(dir, Len(s.input) - s.cursor)
             ELSE Max(dir, 0 - s.cursor)
  IN IF dir = 0 THEN s
     ELSE [TtySetCursor(s, s.cursor + num) EXCEPT
             !.ev.clamped = IF num = 0 THEN @ + 1 ELSE @]

\* _handleCursorInsert that moves the cursor by one whatever it inserts
HandleCursorInsert_ByOne(s, data) ==
  LET newInput == SubSeq(s.input, 1, s.cursor) \o data
                  \o SubSeq(s.input, s.cursor + 1, Len(s.input))
  IN [TtySetInput(TtySetCursor(s, s.cursor + 1), newInput) EXCEPT
        !.ev.inserts = @ + 1]

\* _handleCursorInsert
HandleCursorInsert(s, data) ==
  LET newInput == SubSeq(s.input, 1, s.cursor) \o data
                  \o SubSeq(s.input, s.cursor + 1, Len(s.input))
  IN [TtySetInput(TtySetCursor(s, s.cursor + Len(data)), newInput) EXCEPT
        !.ev.inserts = @ + 1]

\* _handleCursorErase
HandleCursorErase(s, backspace) ==
  IF backspace
  THEN IF s.cursor <= 0 THEN [s EXCEPT !.ev.clamped = @ + 1]
       ELSE LET newInput == SubSeq(s.input, 1, s.cursor - 1)
                            \o SubSeq(s.input, s.cursor + 1, Len(s.input))
            IN TtySetInput(TtySetCursor(TtyNewLine(s), s.cursor - 1), newInput)
  ELSE LET newInput == SubSeq(s.input, 1, s.cursor)
                       \o SubSeq(s.input, s.cursor + 2, Len(s.input))
       IN [TtySetInput(s, newInput) EXCEPT
             !.ev.clamped = IF s.cursor >= Len(s.input) THEN @ + 1 ELSE @]

\* Up arrow and CTRL+P that set the line whatever getPrevious returns
HistoryPrevious_NoTest(s) ==
  LET value == HistoryPreviousValue(s)
  IN TtySetCursor(TtySetInput(HistoryGetPrevious(s), value), Len(value))

\* _handleData, Up arrow and CTRL+P
HistoryPrevious(s) ==
  LET value == HistoryPreviousValue(s)
      h == HistoryGetPrevious(s)
  IN IF value # <<>>
     THEN TtySetCursor(TtySetInput(h, value), Len(value))
     ELSE [h EXCEPT !.ev.clamped = @ + 1]

\* Down arrow and CTRL+N that set the line and leave the cursor
HistoryNext_KeepCursor(s) ==
  TtySetInput(HistoryGetNext(s), HistoryNextValue(s))

\* _handleData, Down arrow and CTRL+N
HistoryNext(s) ==
  LET value == HistoryNextValue(s)
  IN TtySetCursor(TtySetInput(HistoryGetNext(s), value), Len(value))

\* _handleData, ALT+LEFT and ALT+RIGHT: if (ofs) setCursor(ofs)
WordMove(s, ofs) ==
  IF ofs # 0 THEN TtySetCursor(s, ofs) ELSE [s EXCEPT !.ev.clamped = @ + 1]

\* _handleData, CTRL+BACKSPACE
WordErase(s) ==
  LET ofs == ClosestLeftBoundary(s.input, s.cursor)
  IN IF ofs # 0
     THEN TtySetCursor(
            TtySetInput(s, SubSeq(s.input, 1, ofs)
                           \o SubSeq(s.input, s.cursor + 1, Len(s.input))),
            ofs)
     ELSE [s EXCEPT !.ev.clamped = @ + 1]

\* CTRL+G that steps the history and leaves the line
HandleCtrlG_KeepLine(s) == HistoryGetPrevious(s)

\* _handleData, CTRL+G
HandleCtrlG(s) == TtySetInput(HistoryGetPrevious(s), <<>>)

\* printAndRestartPrompt's resume
Resume(s) ==
  [TtySetInput(TtySetCursor(s, s.cursor), s.input) EXCEPT !.ev.resumed = @ + 1]

\* printAndRestartPrompt with the callback of TAB: the candidates are
\* printed at once, or (ask) after a yes/no char read
PrintAndRestartPrompt(s, candidates, ask) ==
  LET done == TtyNewLine(TtySetCursor(s, Len(s.input)))
  IN IF ask
     \* the promise of readChar is returned: resume waits for it
     THEN TtyReadChar(done)
     ELSE Resume([done EXCEPT !.ev.listed = @ + 1, !.ev.shown = candidates])

\* the continuation of the char read of TAB, then resume
CharContinuation(s, yn) ==
  Resume(IF yn \in {<<"y">>, <<"Y">>} THEN [s EXCEPT !.ev.listed = @ + 1] ELSE s)

\* TAB without candidates that inserts its space in every case
TabNoCandidates_AlwaysSpace(s, hasTrailingSpace) ==
  HandleCursorInsert(s, <<" ">>)

\* _handleData, case "\t", no candidates
TabNoCandidates(s, hasTrailingSpace) ==
  IF ~hasTrailingSpace THEN HandleCursorInsert(s, <<" ">>) ELSE s

\* TAB with one candidate that leaves the cursor where it was
TabOneCandidate_KeepCursor(s, candidate) == TtySetInput(s, candidate)

\* _handleData, case "\t", one candidate
TabOneCandidate(s, candidate) ==
  TtySetCursor(TtySetInput(s, candidate), Len(candidate))

\* _handleData, case "\t"
HandleTab(s) ==
  LET inputFragment == SubSeq(s.input, 1, s.cursor)
      hasTrailingSpace == HasTrailingWhitespace(inputFragment)
      candidates == Sort(CollectAutocompleteCandidates(s, inputFragment))
  IN IF Len(candidates) = 0
     THEN TabNoCandidates(s, hasTrailingSpace)
     ELSE IF Len(candidates) = 1
     THEN TabOneCandidate(s, candidates[1])
     ELSE PrintAndRestartPrompt(s, candidates,
                                Len(candidates) > MaxAutocompleteEntries)

\* ENTER that submits whatever isIncompleteInput says
HandleEnter_AlwaysSubmit(s) == HandleReadComplete(s, FALSE)

\* _handleData, case "\r"
HandleEnter(s) ==
  IF IsIncompleteInput(s.input)
  THEN HandleCursorInsert(s, <<LF>>)
  ELSE HandleReadComplete(s, FALSE)

\* _handleData, the ANSI escape sequences
HandleEscape(s, seq) ==
  CASE seq = Tail(LEFT_ARROW) -> HandleCursorMove(s, -1)
    [] seq = Tail(RIGHT_ARROW) -> HandleCursorMove(s, 1)
    [] seq = Tail(DELETE) -> HandleCursorErase(s, FALSE)
    [] seq = Tail(END) -> TtySetCursor(s, Len(s.input))
    [] seq = Tail(HOME) -> TtySetCursor(s, 0)
    [] seq = Tail(UP_ARROW) -> HistoryPrevious(s)
    [] seq = Tail(ALT_LEFT) ->
         WordMove(s, ClosestLeftBoundary(s.input, s.cursor))
    [] seq = Tail(ALT_RIGHT) ->
         WordMove(s, ClosestRightBoundary(s.input, s.cursor))
    [] seq = Tail(CTRL_BACKSPACE) -> WordErase(s)
    [] seq = Tail(DOWN_ARROW) -> HistoryNext(s)
    [] OTHER -> s

\* the control characters with a CTRL+C that throws the line away
HandleControl_CtrlC(s, data) ==
  CASE data = <<CR>> -> HandleEnter(s)
    [] data \in {<<BACKSPACE>>, <<CTRL_H>>, <<CTRL_D>>} ->
         HandleCursorErase(s, TRUE)
    [] data = <<TAB>> -> HandleTab(s)
    [] data = <<CTRL_A>> -> TtySetCursor(s, 0)
    [] data = <<CTRL_B>> -> HandleCursorMove(s, -1)
    [] data = <<CTRL_E>> -> TtySetCursor(s, Len(s.input))
    [] data = <<CTRL_F>> -> HandleCursorMove(s, 1)
    [] data = <<CTRL_K>> ->
         LET k == TtySetInput(s, SubSeq(s.input, 1, s.cursor))
         IN TtySetCursor(k, Len(k.input))
    [] data = <<CTRL_G>> -> HandleCtrlG(s)
    [] data = <<CTRL_N>> -> HistoryNext(s)
    [] data = <<CTRL_P>> -> HistoryPrevious(s)
    [] data = <<CTRL_U>> ->
         TtySetCursor(
           TtySetInput(s, SubSeq(s.input, s.cursor + 1, Len(s.input))), 0)
    [] data = <<CTRL_C>> -> TtySetCursor(TtySetInput(s, <<>>), 0)
    [] OTHER -> s

\* _handleData, the control characters
HandleControl(s, data) ==
  CASE data = <<CR>> -> HandleEnter(s)
    [] data \in {<<BACKSPACE>>, <<CTRL_H>>, <<CTRL_D>>} ->
         HandleCursorErase(s, TRUE)
    [] data = <<TAB>> -> HandleTab(s)
    [] data = <<CTRL_A>> -> TtySetCursor(s, 0)
    [] data = <<CTRL_B>> -> HandleCursorMove(s, -1)
    [] data = <<CTRL_E>> -> TtySetCursor(s, Len(s.input))
    [] data = <<CTRL_F>> -> HandleCursorMove(s, 1)
    [] data = <<CTRL_K>> ->
         LET k == TtySetInput(s, SubSeq(s.input, 1, s.cursor))
         IN TtySetCursor(k, Len(k.input))
    [] data = <<CTRL_G>> -> HandleCtrlG(s)
    [] data = <<CTRL_N>> -> HistoryNext(s)
    [] data = <<CTRL_P>> -> HistoryPrevious(s)
    [] data = <<CTRL_U>> ->
         TtySetCursor(
           TtySetInput(s, SubSeq(s.input, s.cursor + 1, Len(s.input))), 0)
    [] OTHER -> s

\* _handleData
HandleData(s0, data) ==
  IF ~s0.active /\ data # <<CTRL_C>> THEN s0
  ELSE LET s == [s0 EXCEPT !.ev.edits = @ + 1]
           ord == data[1]
       IN IF ord = ESC THEN HandleEscape(s, Tail(data))
          ELSE IF ord \in ControlChars THEN HandleControl(s, data)
          ELSE HandleCursorInsert(s, data)

\* Array.from(normData).forEach((c) => this._handleData(c)); an exception
\* ends the loop
RECURSIVE ForEachChar(_, _)
ForEachChar(s, chars) ==
  IF chars = <<>> \/ s.ev.thrown THEN s
  ELSE ForEachChar(HandleData(s, <<Head(chars)>>), Tail(chars))

\* handleTermData
HandleTermData(s, data) ==
  IF ~s.active /\ data # <<CTRL_C>> THEN s
  ELSE IF s.activeCharPrompt.set
  THEN LET r == [s EXCEPT !.activeCharPrompt = NoPrompt,
                          !.charReads = IF @ > 0 THEN @ - 1 ELSE @,
                          !.ev.charResolves = @ + 1]
       IN CharContinuation(TtyNewLine(r), data)
  ELSE IF Len(data) > 3 /\ data[1] # ESC
  THEN ForEachChar(s, NormalizeNewlines(data))
  ELSE HandleData(s, data)

\* the micro-tasks a macro-task leaves: the continuations of the prompt()
\* calls whose read it resolved
RECURSIVE RunMicrotasks(_)
RunMicrotasks(s) ==
  IF s.microtasks = 0 THEN s
  ELSE RunMicrotasks(PromptContinuation([s EXCEPT !.microtasks = @ - 1]))

(* ------------------------------ actions ------------------------------- *)

\* the input chunks the terminal delivers: a pasted command with its
\* carriage return, and single keys
Chunks == { HELP \o <<CR>>, CLEAR \o <<CR>>, <<CR>> }

\* the chunks of the dispatcher's specification
DispatchChunks ==
  { HELP \o <<CR>>, CLEAR \o <<CR>>, DEPLOY \o <<CR>>, SOLANA \o <<CR>>,
    RUN_LAST_CMD, <<CR>> }

\* the chunks of the autocomplete specification
TabChunks == { <<TAB>>, <<"y">>, <<CR>>, LEFT_ARROW }

\* the chunks of the line editor's specification: keys, short chunks and
\* pasted blocks
EditChunks ==
  { <<"(">>, <<"(", "(">>, <<"(", CR>>, <<CR>>,
    <<BACKSPACE>>, LEFT_ARROW, RIGHT_ARROW, DELETE,
    CLEAR \o <<CR, "(">>, <<"(", CR, LF, LF, "(">> }

\* the chunks of the packages' specification: the three package commands
PkgChunks == { SOLANA \o <<CR>>, SPL_TOKEN \o <<CR>>, SUGAR \o <<CR>> }

\* the chunks of the tokenizer's specification: a key, a chunk of three
\* characters with a line feed inside, ENTER
TokenChunks == { <<"!">>, <<"!", LF, "y">>, <<CR>> }

\* the chunks of the input guard's specification: a key, ENTER, CTRL+C and
\* a pasted block that starts with CTRL+C
GuardChunks == { <<"y">>, <<CR>>, <<CTRL_C>>, <<CTRL_C, "y", CTRL_C, CTRL_C>> }

\* the chunks of the word keys' specification: a pasted line of two words,
\* the left arrow and the word keys
FOO_BAR == <<"f", "o", "o", " ", "b", "a", "r">>

WordChunks == { FOO_BAR, LEFT_ARROW, ALT_LEFT, ALT_RIGHT, CTRL_BACKSPACE }

\* the chunks of the failing reads' specification: a key and ENTER
FaultChunks == { <<"y">>, <<CR>> }

\* the chunks of the edit keys' specification: one of each kind of key
KeyChunks ==
  { <<"y">>, <<CR>>, <<BACKSPACE>>, LEFT_ARROW, <<CTRL_U>>, <<CTRL_G>>,
    CTRL_BACKSPACE, UP_ARROW }

\* the chunks of the history's specification: a key that makes lines, ENTER
\* and the traversal keys
HistChunks ==
  { <<"y">>, <<CR>>, UP_ARROW, DOWN_ARROW, <<CTRL_P>>, <<CTRL_N>>, <<CTRL_G>> }

TypeOK ==
  /\ active \in BOOLEAN
  /\ waitingForInput \in BOOLEAN
  /\ processCount \in Nat
  /\ loadedPkgs \subseteq {SOLANA_CLI, SPL_TOKEN_CLI, SUGAR_CLI}
  /\ activePrompt.set \in BOOLEAN
  /\ activeCharPrompt.set \in BOOLEAN
  /\ cursor \in 0..Len(input)
  /\ promptShown \in BOOLEAN
  /\ charReads \in 0..MaxCharReads
  /\ Len(entries) <= HistorySize
  /\ Len(timers) <= MaxTimers
  /\ listeners \in Nat
  /\ running \in 0..MaxRunning
  /\ disabledOps \in 0..MaxOps
  /\ walletConnected \in BOOLEAN
  /\ readFaults \in 0..MaxReadFaults
  /\ listening \in BOOLEAN
  /\ Len(calls) <= MaxSends
  /\ Len(receives) <= Len(calls)

\* the state after the constructor; the wallet is connected or not
Init ==
  /\ active = FALSE
  /\ waitingForInput = FALSE
  /\ processCount = 0
  /\ loadedPkgs = {}
  /\ activePrompt = NoPrompt
  /\ activeCharPrompt = NoPrompt
  /\ input = <<>>
  /\ cursor = 0
  /\ promptShown = FALSE
  /\ charReads = 0
  /\ entries = <<>>
  /\ histCursor = 0
  /\ timers = <<>>
  /\ listeners = 0
  /\ running = 0
  /\ disabledOps = 0
  /\ walletConnected \in BOOLEAN
  /\ readFaults = 0
  /\ ev = NoEv
  /\ listening = FALSE
  /\ calls = <<>>
  /\ receives = <<>>

\* the macro-task ends: its micro-tasks run, and the session is what is left
Commit(t) ==
  LET s == RunMicrotasks(t)
  IN /\ Len(s.timers) <= MaxTimers
     /\ s.running <= MaxRunning
     /\ s.disabledOps <= MaxOps
     /\ s.charReads <= MaxCharReads
     /\ active' = s.active
     /\ waitingForInput' = s.waitingForInput
     /\ processCount' = s.processCount
     /\ loadedPkgs' = s.loadedPkgs
     /\ activePrompt' = s.activePrompt
     /\ activeCharPrompt' = s.activeCharPrompt
     /\ input' = s.input
     /\ cursor' = s.cursor
     /\ promptShown' = s.promptShown
     /\ charReads' = s.charReads
     /\ entries' = s.entries
     /\ histCursor' = s.histCursor
     /\ timers' = s.timers
     /\ listeners' = s.listeners
     /\ running' = s.running
     /\ disabledOps' = s.disabledOps
     /\ walletConnected' = s.walletConnected
     /\ readFaults' = s.readFaults
     /\ ev' = s.ev
     /\ UNCHANGED <<listening, calls, receives>>

\* the terminal delivers an input chunk; a chunk that would make a line
\* that is not empty longer than the limit is not delivered
TermDataWithin(data, limit) ==
  LET t == HandleTermData(State("data", data), data)
  IN /\ input = <<>> \/ Len(t.input) <= Max(limit, Len(input))
     /\ Commit(t)

TermData(data) == TermDataWithin(data, MaxLineLen)

\* an operation (a build, a deploy, a running command) calls disable()
DisableCall ==
  Commit([Disable(State("disable", <<>>)) EXCEPT !.disabledOps = @ + 1])

\* an operation that called disable() calls enable()
OpEnable ==
  /\ disabledOps > 0
  /\ Commit(Enable([State("enable", <<"op">>) EXCEPT !.disabledOps = @ - 1],
                   "op"))

\* a command handler the dispatcher started ends and calls enable()
HandlerEnable ==
  /\ running > 0
  /\ Commit(Enable([State("enable", <<"cmd">>) EXCEPT !.running = @ - 1],
                   "cmd"))

\* the terminal calls enable(): at start-up, on a TERMINAL_ENABLE event
EnableCall == Commit(Enable(State("enable", <<"cmd">>), "cmd"))

\* the oldest enable() timer fires
Timer ==
  /\ timers # <<>>
  /\ Commit(EnableTimer([State("timer", <<Head(timers)>>)
                           EXCEPT !.timers = Tail(@)]))

\* a command calls waitForUserInput
WaitCall == Commit(WaitForUserInput(State("wait", <<>>)))

\* the tty gets into a state where one more read throws
TtyFault ==
  /\ readFaults < MaxReadFaults
  /\ Commit([State("fault", <<>>) EXCEPT !.readFaults = @ + 1])

\* the terminal calls prompt()
PromptCall == Commit(Prompt(State("prompt", <<>>)))

\* the terminal calls handleReadComplete (a command run from a string)
ReadCompleteCall(clearCmd) ==
  Commit(HandleReadComplete(State("complete", <<>>), clearCmd))

\* the prompt/read controller: input, the public methods and the timers
Next ==
  \/ \E data \in Chunks : TermData(data)
  \/ DisableCall
  \/ OpEnable
  \/ EnableCall
  \/ Timer
  \/ WaitCall
  \/ PromptCall
  \/ \E clearCmd \in BOOLEAN : ReadCompleteCall(clearCmd)

Spec == Init /\ [][Next]_vars

\* the command dispatcher: submitted commands, their handlers, the timers
DispatchNext ==
  \/ \E data \in DispatchChunks : TermData(data)
  \/ HandlerEnable
  \/ EnableCall
  \/ Timer

DispatchSpec == Init /\ [][DispatchNext]_vars

\* autocomplete: TAB and the keys that answer its question
TabNext ==
  \/ \E data \in TabChunks : TermData(data)
  \/ EnableCall
  \/ Timer

TabSpec == Init /\ [][TabNext]_vars

\* the line editor: keys, short chunks and pasted blocks
EditNext ==
  \/ \E data \in EditChunks : TermData(data)
  \/ EnableCall
  \/ Timer

EditSpec == Init /\ [][EditNext]_vars

\* the lazily loaded packages: their commands, their handlers, the timers
PkgNext ==
  \/ \E data \in PkgChunks : TermData(data)
  \/ HandlerEnable
  \/ EnableCall
  \/ Timer

PkgSpec == Init /\ [][PkgNext]_vars

\* the tokenizer of the dispatcher: lines with whitespace in them
TokenNext ==
  \/ \E data \in TokenChunks : TermDataWithin(data, MaxTokenLineLen)
  \/ EnableCall
  \/ Timer

TokenSpec == Init /\ [][TokenNext]_vars

\* the guard on input: chunks while the shell is active and while it is not
GuardNext ==
  \/ \E data \in GuardChunks : TermData(data)
  \/ DisableCall
  \/ OpEnable
  \/ Timer

GuardSpec == Init /\ [][GuardNext]_vars

\* the word keys: moves and erases by word
WordNext ==
  \/ \E data \in WordChunks : TermData(data)
  \/ EnableCall
  \/ Timer

WordSpec == Init /\ [][WordNext]_vars

\* prompts on a tty whose reads throw now and then
FaultNext ==
  \/ \E data \in FaultChunks : TermData(data)
  \/ TtyFault
  \/ PromptCall
  \/ WaitCall
  \/ Timer

FaultSpec == Init /\ [][FaultNext]_vars

\* the edit keys, one chunk each
KeyNext ==
  \/ \E data \in KeyChunks : TermData(data)
  \/ EnableCall
  \/ Timer

KeySpec == Init /\ [][KeyNext]_vars

\* the history: submitted lines and the traversal keys
HistNext ==
  \/ \E data \in HistChunks : TermData(data)
  \/ EnableCall
  \/ Timer

HistSpec == Init /\ [][HistNext]_vars

(* -------------------- useSendAndReceiveCustomEvent --------------------- *)

\* the value undefined
Undefined == [type |-> "undefined", text |-> ""]

\* the promise of a cb call that has not settled
Pending == [kind |-> "pending", value |-> Undefined]

\* what cb's promise does: it resolves with a result, or rejects with any
\* value (an Error with a message, a string as waitForUserInput does,
\* undefined)
Outcomes ==
  {[kind |-> "resolve", value |-> [type |-> "object", text |-> "result"]]}
    \cup {[kind |-> "reject", value |-> v] :
            v \in {[type |-> "Error", text |-> "failed"],
                   [type |-> "string", text |-> "failed"],
                   Undefined}}

\* e.message: the message of an Error, undefined on a string, and a
\* TypeError on undefined
Message(e) ==
  CASE e.type = "undefined" -> [threw |-> TRUE, value |-> Undefined]
    [] e.type = "Error" -> [threw |-> FALSE, value |-> e]
    [] OTHER -> [threw |-> FALSE, value |-> Undefined]

\* PgCommon.createAndDispatchCustomEvent(eventNames.receive, detail)
DispatchReceive(rs, i, key, value) ==
  Append(rs, [of |-> i, key |-> key, value |-> value])

\* handleSend after its await: the receive event of the try block, or of
\* the catch block, whose e.message can throw
HandleSend(rs, i, outcome) ==
  IF outcome.kind = "resolve"
  THEN DispatchReceive(rs, i, "data", outcome.value)
  ELSE LET m == Message(outcome.value)
       IN IF m.threw THEN rs
          ELSE DispatchReceive(rs, i, "error", m.value)

\* the effect runs: document.addEventListener(eventNames.send, handleSend)
HookMount ==
  /\ ~listening
  /\ listening' = TRUE
  /\ UNCHANGED <<calls, receives, shellVars>>

\* the effect's cleanup: document.removeEventListener
HookCleanup ==
  /\ listening
  /\ listening' = FALSE
  /\ UNCHANGED <<calls, receives, shellVars>>

\* a send event is dispatched on document: handleSend is called when it is
\* registered, and waits for cb
SendEvent ==
  /\ Len(calls) < MaxSends
  /\ calls' = Append(calls, [heard |-> listening, outcome |-> Pending])
  /\ UNCHANGED <<listening, receives, shellVars>>

\* the promise of a cb call settles and handleSend goes on
CbSettles(i, outcome) ==
  /\ calls[i].heard /\ calls[i].outcome = Pending
  /\ calls' = [calls EXCEPT ![i].outcome = outcome]
  /\ receives' = HandleSend(receives, i, outcome)
  /\ UNCHANGED <<listening, shellVars>>

\* the hook: the effect, its cleanup, the send events and the callbacks
HookNext ==
  \/ HookMount
  \/ HookCleanup
  \/ SendEvent
  \/ \E c \in (DOMAIN calls) \X Outcomes : CbSettles(c[1], c[2])

HookSpec == Init /\ [][HookNext]_vars

(* ------------------------------- claims ------------------------------- *)

\* a handleReadComplete call was part of the step
Submitted == ev'.completes >= 1

\* C1: a waitForUserInput call made while an earlier one is pending is
\* rejected at once and changes nothing of the session (nothing printed, no
\* enable() timer, no listener added), and the pending call is resolved
\* with the next line submitted
C1_SecondWaitRejected ==
  [][/\ (ev'.op = "wait" /\ waitingForInput) =>
          /\ ev'.rejected
          /\ ev'.printed = 0 /\ ev'.enables = 0
          /\ UNCHANGED sessionVars
     /\ (waitingForInput /\ Submitted) =>
          /\ ev'.fired = 1
          /\ ev'.delivered = <<input'>>]_vars

C1_Witness ==
  /\ ev.op = "wait" /\ ev.rejected
  /\ waitingForInput /\ listeners = 1

\* the operations that have called disable() and whose enable() delayed
\* step has not run: those yet to call enable(), and those whose timer is
\* pending
OpenOps(ops, ts) == ops + Cardinality({i \in 1..Len(ts) : ts[i] = "op"})

\* C2: enable() itself changes neither active, the line PendingRead nor
\* processCount; its delayed step lowers processCount by one (not below 0)
\* and sets active and prompts exactly when processCount is then 0; so
\* while operations that called disable() are still open (their enable()
\* delayed step has not run), the delayed step of such an operation does
\* not activate the shell: only the last one does
C2_EnableNesting ==
  [][/\ ev'.op = "enable" =>
          /\ active' = active /\ activePrompt' = activePrompt
          /\ processCount' = processCount
          /\ ev'.activations = 0 /\ ev'.reads = 0
          /\ Len(timers') = Len(timers) + 1
     /\ ev'.op = "timer" =>
          /\ processCount' = IF processCount > 0 THEN processCount - 1 ELSE 0
          /\ (ev'.activations = 1) <=> (processCount' = 0)
          /\ processCount' = 0 => active' /\ activePrompt'.set
          /\ processCount' > 0 =>
               /\ ev'.activations = 0 /\ ev'.reads = 0
               /\ active' = active /\ activePrompt' = activePrompt
     /\ (/\ ev'.op = "timer" /\ ev'.arg = <<"op">>
         /\ OpenOps(disabledOps', timers') > 0)
          => ev'.activations = 0 /\ active' = active]_vars

\* the branches of the dispatcher that do not re-enter the prompt
\* themselves and start no handler
DirectBranches == {"help", "not-found", "empty", "no-previous"}

\* C3: a line handed to the dispatcher that takes the help, the
\* unrecognized-command, the empty-line or the '!!'-with-empty-history
\* branch, directly or through '!!', calls enable() exactly once
C3_EnableOncePerLine ==
  (ev.dispatched >= 1 /\ ev.branch \in DirectBranches)
    => (ev.dispatched = 1 /\ ev.enables = 1 /\ ev.activations = 0)

C3_Witness ==
  /\ ev.dispatched = 1 /\ ev.branch = "help" /\ ev.enables = 1
  /\ ev.resolvedWith = <<RUN_LAST_CMD>>

\* C4: once a line was handed to the dispatcher, the shell is active with
\* a line PendingRead outstanding, or what will make it so is on its way: an
\* enable() timer is pending or a handler that was started is yet to call
\* enable()
C4_NeverStuck ==
  ev.dispatched >= 1 =>
    \/ active /\ activePrompt.set
    \/ timers # <<>>
    \/ running > 0

C6_ResolverOnce ==
  [][Submitted =>
       /\ ev'.completes = 1
       /\ ev'.resolves = (IF activePrompt.set THEN 1 ELSE 0)
       /\ ev'.reresolves = 0
       /\ ev'.resolves = 1 => Len(ev'.resolvedWith) = 1
       /\ ev'.resolves = 0 => ev'.resolvedWith = <<>>
       /\ (ev'.resolves = 1 /\ ev'.reads = 0) => ev'.resolvedWith = <<input'>>
       /\ (ev'.resolves = 1 /\ ev'.op = "complete")
             => ev'.resolvedWith = <<input>>
       /\ ev'.reads = 0 => activePrompt' = NoPrompt
       /\ ~activePrompt'.settled]_vars

C6_Witness ==
  /\ ev.completes = 1 /\ ev.resolves = 1 /\ ev.resolvedWith = <<HELP>>
  /\ activePrompt = NoPrompt

\* C7: a line completed while the shell waits for external input is not
\* dispatched: the listener of waitForUserInput fires once, clears the
\* waiting flag and is unregistered; a line completed while the shell does
\* not wait is dispatched, and a waitForUserInput call is then accepted
C7_WaitingLineToListener ==
  [][/\ (waitingForInput /\ Submitted) =>
          /\ ev'.dispatched = 0 /\ ev'.branch = "" /\ ev'.enables = 0
          /\ ev'.fired = 1 /\ Len(ev'.delivered) = 1
          /\ ~waitingForInput' /\ listeners' = 0
     /\ (~waitingForInput /\ Submitted) =>
          /\ ev'.dispatched = 1 /\ ev'.fired = 0
          /\ ~waitingForInput' /\ listeners' = 0
     /\ (ev'.op = "wait" /\ ~waitingForInput) =>
          /\ ~ev'.rejected /\ waitingForInput' /\ listeners' = 1]_vars

C7_Witness ==
  /\ ev.completes = 1 /\ ev.fired = 1 /\ ev.dispatched = 0
  /\ ~waitingForInput /\ listeners = 0

\* C8: while a char PendingRead is outstanding, the next input chunk the
\* shell accepts resolves it once and clears it, and is not applied to the
\* line; at most one char PendingRead is outstanding
C8_CharReadFirst ==
  [][(charReads > 0 /\ ev'.op = "data" /\ active) =>
       /\ ev'.charResolves = 1
       /\ charReads' = charReads - 1
       /\ ev'.edits = 0]_vars

\* C9: TAB with more candidates than the maximum asks through a char read
\* and prints nothing; the chunk that follows prints the candidates exactly
\* when it is 'y' or 'Y', and the prompt is restored with the input line
\* as it was
C9_OverLimitAnswer ==
  [][/\ ev'.charAsked >= 1 => (ev'.listed = 0 /\ ev'.resumed = 0)
     /\ (charReads > 0 /\ ev'.op = "data" /\ active) =>
          /\ ev'.listed = (IF ev'.arg \in {<<"y">>, <<"Y">>} THEN 1 ELSE 0)
          /\ ev'.resumed = 1
          /\ input' = input /\ cursor' = cursor /\ promptShown']_vars

\* C10: prompt() called while a line PendingRead is outstanding and the
\* visible line starts with the prompt issues no read, keeps the
\* PendingRead, pushes nothing to the history and leaves the session as it
\* was
C10_PromptIdempotent ==
  [][(ev'.op = "prompt" /\ activePrompt.set /\ promptShown) =>
       /\ ev'.reads = 0 /\ ev'.pushes = 0
       /\ activePrompt' = activePrompt
       /\ UNCHANGED sessionVars]_vars

C10_Witness ==
  /\ ev.op = "prompt" /\ ev.reads = 0
  /\ activePrompt.set /\ promptShown /\ active

\* the entries of the history after PgShellHistory.push(line)
Pushed(es, line) ==
  HistoryPush([entries |-> es, histCursor |-> 0, ev |-> NoEv], line).entries

\* C11: when a submission resolves the line PendingRead of prompt(), the
\* trimmed line that was submitted is pushed to the history, once
C11_SubmittedLinePushed ==
  [][ev'.resolves = 1 =>
       /\ ev'.pushes = 1
       /\ entries' = Pushed(entries, Trim(ev'.resolvedWith[1]))]_vars

\* C12: the line 'clear' submitted at the prompt issues a fresh line
\* PendingRead with the shell active, calls no enable(), and adds one entry
\* 'clear' to the history
C12_ClearOnce ==
  [][(ev'.op = "data" /\ ev'.arg = CLEAR \o <<CR>> /\ ev'.dispatched = 1) =>
       /\ ev'.branch = "clear" /\ ev'.enables = 0
       /\ ev'.reads = 1 /\ activePrompt' = NewPrompt(PROMPT_PREFIX)
       /\ active'
       /\ ev'.pushes <= 1
       /\ entries' = Pushed(entries, CLEAR)]_vars

\* C13: disable() adds 1 to processCount, sets active to false and leaves
\* the line, the cursor, the history, the PendingReads, the waiting flag
\* and the loaded packages as they were
C13_DisableFrame ==
  [][ev'.op = "disable" =>
       /\ processCount' = processCount + 1
       /\ ~active'
       /\ UNCHANGED <<input, cursor, promptShown, entries, histCursor,
                      activePrompt, activeCharPrompt, charReads,
                      waitingForInput, listeners, loadedPkgs, timers>>]_vars

C13_Witness ==
  /\ ev.op = "disable" /\ ~active /\ processCount = 2
  /\ activePrompt.set /\ waitingForInput

\* C14: processCount is never negative, and an enable() delayed step that
\* finds it 0 leaves it 0
C14_ProcessCountNonNegative ==
  /\ processCount >= 0
  /\ (ev.op = "timer" /\ ev.clamped >= 1) => processCount = 0

C14_Witness ==
  /\ ev.op = "timer" /\ ev.clamped = 1 /\ processCount = 0
  /\ ev.activations = 1 /\ disabledOps > 0

\* the line with text put in at the cursor
InsertedAt(line, at, text) ==
  SubSeq(line, 1, at) \o text \o SubSeq(line, at + 1, Len(line))

\* the keys of C15, by what they ask for
EraseBackKeys == {<<BACKSPACE>>, <<CTRL_H>>, <<CTRL_D>>}

MoveLeftKeys == {LEFT_ARROW, <<CTRL_B>>}

MoveRightKeys == {RIGHT_ARROW, <<CTRL_F>>}

\* an input chunk was handed to handleTermData while the shell was active
Accepted == ev'.op = "data" /\ active

\* C15: the cursor stays within 0..length of the line after every
\* insertion, erase, forward delete and cursor move; backspace at offset 0
\* and a move past either end change neither the line nor the cursor
C15_CursorInBounds ==
  [][/\ cursor' \in 0..Len(input')
     /\ (Accepted /\ ev'.arg \in EraseBackKeys \cup MoveLeftKeys /\ cursor = 0)
          => (ev'.clamped = 1 /\ UNCHANGED <<input, cursor>>)
     /\ (Accepted /\ ev'.arg \in MoveRightKeys /\ cursor = Len(input))
          => (ev'.clamped = 1 /\ UNCHANGED <<input, cursor>>)
     /\ (Accepted /\ ev'.arg \in MoveLeftKeys /\ cursor > 0)
          => (cursor' = cursor - 1 /\ input' = input)
     /\ (Accepted /\ ev'.arg \in MoveRightKeys /\ cursor < Len(input))
          => (cursor' = cursor + 1 /\ input' = input)
     /\ (Accepted /\ ev'.arg \in EraseBackKeys /\ cursor > 0)
          => (cursor' = cursor - 1 /\ Len(input') = Len(input) - 1)
     /\ (Accepted /\ ev'.arg = DELETE)
          => /\ cursor' = cursor
             /\ Len(input') = IF cursor < Len(input) THEN Len(input) - 1
                              ELSE Len(input)]_vars

C15_Witness ==
  /\ ev.op = "data" /\ ev.arg = LEFT_ARROW /\ ev.clamped = 1
  /\ cursor = 0 /\ Len(input) = MaxLineLen

\* the session after each character was delivered as a chunk of its own,
\* one macro-task after the other
RECURSIVE Separately(_, _)
Separately(s, chars) ==
  IF chars = <<>> THEN s
  ELSE Separately(RunMicrotasks(HandleTermData(s, <<Head(chars)>>)),
                  Tail(chars))

\* the fields of a session record, in the order of sessionVars
SessionOf(s) ==
  <<s.active, s.waitingForInput, s.processCount, s.loadedPkgs,
    s.activePrompt, s.activeCharPrompt, s.input, s.cursor, s.promptShown,
    s.charReads, s.entries, s.histCursor, s.timers, s.listeners, s.running,
    s.disabledOps, s.walletConnected, s.readFaults>>

\* C16: a chunk longer than 3 characters that does not start with ESC has
\* the effect of its characters, each run of CR and LF made one CR,
\* delivered as chunks of their own; any other chunk is handled as one unit
C16_PasteExpansion ==
  [][/\ (Accepted /\ Len(ev'.arg) > 3 /\ ev'.arg[1] # ESC) =>
          sessionVars' =
            SessionOf(Separately(State("data", <<>>),
                                 NormalizeNewlines(ev'.arg)))
     /\ (Accepted /\ (Len(ev'.arg) <= 3 \/ ev'.arg[1] = ESC)) =>
          ev'.edits = 1]_vars

\* C17 as stated: a chunk of 2 or 3 characters that does not start with
\* ESC leaves the session as its characters delivered one by one do
C17_Original ==
  [][(Accepted /\ Len(ev'.arg) \in 2..3 /\ ev'.arg[1] # ESC) =>
       sessionVars' = SessionOf(Separately(State("data", <<>>), ev'.arg))]_vars

\* C17, amended: a chunk of 2 or 3 printable characters (no control byte,
\* no ESC) leaves the session as its characters delivered one by one do
C17_PrintableChunks ==
  [][(/\ Accepted /\ Len(ev'.arg) \in 2..3
      /\ \A i \in 1..Len(ev'.arg) : ev'.arg[i] \notin ControlChars \cup {ESC})
       => /\ sessionVars' =
               SessionOf(Separately(State("data", <<>>), ev'.arg))
          /\ input' = InsertedAt(input, cursor, ev'.arg)
          /\ cursor' = cursor + Len(ev'.arg)]_vars

C17_Witness ==
  /\ ev.op = "data" /\ ev.arg = <<"(", "(">> /\ ev.inserts = 1
  /\ input = <<"(", "(">> /\ cursor = 2

\* C18: ENTER on a line the continuation predicate judges incomplete puts
\* a newline in at the cursor and submits nothing: the line PendingRead
\* stays, the shell stays active, nothing is dispatched; on any other line
\* ENTER submits it
C18_EnterIncomplete ==
  [][(Accepted /\ ev'.arg = <<CR>>) =>
       IF IsIncompleteInput(input)
       THEN /\ input' = InsertedAt(input, cursor, <<LF>>)
            /\ cursor' = cursor + 1
            /\ ev'.completes = 0 /\ ev'.resolves = 0 /\ ev'.dispatched = 0
            /\ activePrompt' = activePrompt /\ active'
            /\ entries' = entries
       ELSE /\ ev'.completes = 1 /\ ev'.dispatched = 1
            /\ ev'.resolvedWith = <<input>>
            /\ ev'.inserts = 0]_vars

C18_Witness ==
  /\ ev.op = "data" /\ ev.arg = <<CR>> /\ ev.inserts = 1 /\ ev.completes = 0
  /\ input = <<"(", LF>> /\ cursor = 2 /\ active /\ activePrompt.set

\* the candidates TAB collects for the line up to the cursor
Candidates ==
  CollectAutocompleteCandidates(State("data", <<>>), SubSeq(input, 1, cursor))

\* the session without the line (input, cursor, promptShown)
restVars ==
  <<active, waitingForInput, processCount, loadedPkgs, activePrompt,
    activeCharPrompt, charReads, entries, histCursor, timers, listeners,
    running, disabledOps, walletConnected, readFaults>>

\* C19: TAB with no candidate changes nothing of the session when the line
\* up to the cursor ends in whitespace, and otherwise puts one space in at
\* the cursor and moves the cursor by one
C19_TabNoCandidates ==
  [][(Accepted /\ ev'.arg = <<TAB>> /\ Len(Candidates) = 0) =>
       IF HasTrailingWhitespace(SubSeq(input, 1, cursor))
       THEN ev'.inserts = 0 /\ UNCHANGED sessionVars
       ELSE /\ input' = InsertedAt(input, cursor, <<" ">>)
            /\ cursor' = cursor + 1
            /\ ev'.inserts = 1
            /\ UNCHANGED restVars]_vars

C19_Witness ==
  /\ ev.op = "data" /\ ev.arg = <<TAB>> /\ ev.edits = 1 /\ ev.inserts = 0
  /\ entries = <<>> /\ input = <<" ">> /\ cursor = 1

\* C20: TAB with exactly one candidate makes the line that candidate and
\* the cursor its length, wherever the cursor was and whatever followed it
C20_TabOneCandidate ==
  [][(Accepted /\ ev'.arg = <<TAB>> /\ Len(Candidates) = 1) =>
       /\ input' = Candidates[1]
       /\ cursor' = Len(Candidates[1])
       /\ ev'.listed = 0 /\ ev'.charAsked = 0
       /\ UNCHANGED restVars]_vars

C20_Witness ==
  /\ ev.op = "data" /\ ev.arg = <<TAB>> /\ ev.edits = 1
  /\ entries = <<<<"y">>>> /\ input = <<"y">> /\ cursor = 1

\* C21: TAB with 2 to maxAutocompleteEntries candidates prints them in
\* sorted order and restores the prompt with the line and the cursor offset
\* they had before TAB
C21_ListingRestoresPrompt ==
  [][(/\ Accepted /\ ev'.arg = <<TAB>>
      /\ Len(Candidates) \in 2..MaxAutocompleteEntries) =>
       /\ ev'.listed = 1 /\ ev'.shown = Sort(Candidates)
       /\ ev'.resumed = 1 /\ promptShown'
       /\ input' = input /\ cursor' = cursor]_vars

\* the last HistorySize elements of a sequence
LastK(es) ==
  IF Len(es) > HistorySize
  THEN SubSeq(es, Len(es) - HistorySize + 1, Len(es))
  ELSE es

\* C22: the history never holds more than historySize entries, and the
\* push of a non-empty line that is not among them leaves the historySize
\* most recent lines, oldest first: after more pushes of distinct lines
\* than the capacity, exactly the most recent ones are kept
C22_HistoryCapacity ==
  [][/\ Len(entries') <= HistorySize
     /\ (/\ ev'.resolves = 1 /\ Trim(input') # <<>>
         /\ \A i \in 1..Len(entries) : entries[i] # Trim(input'))
          => /\ ev'.pushes = 1
             /\ entries' = LastK(Append(entries, Trim(input')))
     /\ ev'.pushes = 0 => entries' = entries]_vars

C22_Witness ==
  /\ ev.pushes = 1 /\ ev.evicted = 1
  /\ entries = <<DEPLOY, SOLANA, RUN_LAST_CMD>>

\* the keys of the history traversal
PrevKeys == {UP_ARROW, <<CTRL_P>>}

NextKeys == {DOWN_ARROW, <<CTRL_N>>}

\* C23: the traversal stays within the history: history-previous steps from
\* the newest entry to the oldest and returns nothing once there or when
\* the history is empty; history-next steps to newer entries and returns
\* the empty line past the newest; every push resets the traversal, so that
\* the next history-previous returns the newest entry
C23_TraversalClamped ==
  [][/\ histCursor' \in 0..Len(entries')
     /\ (Accepted /\ ev'.arg \in PrevKeys) =>
          /\ entries' = entries
          /\ IF histCursor > 0
             THEN histCursor' = histCursor - 1 /\ input' = entries[histCursor]
             ELSE /\ histCursor' = 0 /\ ev'.clamped = 1
                  /\ UNCHANGED <<input, cursor>>
     /\ (Accepted /\ ev'.arg \in NextKeys) =>
          /\ entries' = entries
          /\ histCursor' = Min(Len(entries), histCursor + 1)
          /\ input' = IF histCursor' < Len(entries)
                      THEN entries[histCursor' + 1]
                      ELSE <<>>
     /\ ev'.pushes >= 1 => histCursor' = Len(entries')]_vars

C23_Witness ==
  /\ ev.op = "data" /\ ev.arg = UP_ARROW /\ ev.clamped = 1
  /\ histCursor = 0 /\ entries = <<<<"y">>, <<"y", "y">>>>
  /\ input = <<"y">> /\ cursor = 1

\* the branches of the dispatcher that load a package, and their packages
PkgBranches == {"solana", "spl-token", "sugar"}

PkgOf(branch) ==
  CASE branch = "solana" -> SOLANA_CLI
    [] branch = "spl-token" -> SPL_TOKEN_CLI
    [] branch = "sugar" -> SUGAR_CLI

\* C24: a package command that passes the wallet precondition loads its
\* package once, asks for the initialization log exactly when the package
\* was not marked loaded (also when an earlier invocation is still
\* running) and marks it loaded; a command that fails the precondition
\* loads nothing and marks nothing; a mark is never taken back
C24_InitLogOnce ==
  [][/\ loadedPkgs \subseteq loadedPkgs'
     /\ ev'.branch \in PkgBranches =>
          /\ ev'.loads = 1
          /\ ev'.logs = (IF PkgOf(ev'.branch) \in loadedPkgs THEN 0 ELSE 1)
          /\ loadedPkgs' = loadedPkgs \cup {PkgOf(ev'.branch)}
     /\ ev'.branch \notin PkgBranches =>
          /\ ev'.loads = 0 /\ ev'.logs = 0
          /\ loadedPkgs' = loadedPkgs]_vars

C24_Witness ==
  /\ ev.branch = "solana" /\ ev.loads = 1 /\ ev.logs = 0
  /\ running = 2 /\ loadedPkgs = {SOLANA_CLI}

\* C25: '!!' submitted with a history hands its most recent entry to the
\* dispatcher, which runs the branch of that entry: no read is issued, and
\* the entry is not pushed again; '!!' submitted with an empty history
\* prints 'No previous command.' and calls enable() once
C25_RepeatLast ==
  [][(Accepted /\ ev'.arg = <<CR>> /\ CmdName(input) = RUN_LAST_CMD) =>
       /\ ev'.completes = 1 /\ ev'.dispatched = 1
       /\ IF entries = <<>>
          THEN /\ ev'.branch = "no-previous"
               /\ ev'.printed = 1 /\ ev'.enables = 1 /\ ev'.reads = 0
          ELSE /\ ~ev'.thrown
               /\ ev'.branch =
                    ParseBranch(State("data", <<>>),
                                entries[Len(entries)]).ev.branch
               /\ ev'.reads = 0
               /\ entries' = Pushed(entries, RUN_LAST_CMD)]_vars

\* the first whitespace-delimited token of a line without leading whitespace
RECURSIVE WhitespaceToken(_)
WhitespaceToken(s) ==
  IF s = <<>> \/ Head(s) \in Whitespace THEN <<>>
  ELSE <<Head(s)>> \o WhitespaceToken(Tail(s))

\* the command names the dispatcher has a case for
Registered ==
  {BUILD, CLEAR, CONNECT, DEPLOY, HELP, SOLANA, SPL_TOKEN, SUGAR, RUN_LAST_CMD}

\* C26: the command name of a submitted line is its first
\* whitespace-delimited token; a name that is not empty and not registered
\* prints 'not found' and calls enable() once, an empty name prints nothing
\* and calls enable() once; neither starts a handler, loads a package or
\* changes anything but the prompt cycle
C26_DefaultBranch ==
  [][(Accepted /\ ev'.arg = <<CR>> /\ ev'.dispatched = 1) =>
       /\ ev'.name = WhitespaceToken(Trim(input))
       /\ (ev'.name # <<>> /\ ev'.name \notin Registered) =>
            (ev'.branch = "not-found" /\ ev'.printed = 1)
       /\ ev'.name = <<>> => (ev'.branch = "empty" /\ ev'.printed = 0)
       /\ ev'.name \notin Registered =>
            /\ ev'.enables = 1 /\ ev'.loads = 0 /\ ev'.reads = 0
            /\ UNCHANGED <<running, loadedPkgs, processCount,
                           waitingForInput, listeners, charReads,
                           activeCharPrompt, walletConnected>>]_vars

C28_WordMoves ==
  [][/\ (Accepted /\ ev'.arg = ALT_LEFT) =>
          /\ cursor' = ClosestLeftBoundary(input, cursor)
          /\ input' = input
     /\ (Accepted /\ ev'.arg = ALT_RIGHT) =>
          /\ cursor' = ClosestRightBoundary(input, cursor)
          /\ input' = input]_vars

\* C30: CTRL+BACKSPACE removes the characters between the nearest word
\* boundary to the left of the cursor and the cursor, keeps what is before
\* the boundary and what is after the cursor, and puts the cursor on the
\* boundary, also when the boundary is the start of the line
C30_WordErase ==
  [][(Accepted /\ ev'.arg = CTRL_BACKSPACE) =>
       /\ input' = SubSeq(input, 1, ClosestLeftBoundary(input, cursor))
                    \o SubSeq(input, cursor + 1, Len(input))
       /\ cursor' = ClosestLeftBoundary(input, cursor)]_vars

\* C29: when reads of the tty throw, prompt() catches each exception,
\* prints its message and calls itself again: no exception leaves prompt(),
\* and once a read succeeds the shell is active with a fresh line
\* PendingRead outstanding
C29_PromptRetries ==
  [][(/\ ev'.op \in {"prompt", "timer"} /\ readFaults > 0
      /\ ev'.caught + ev'.reads >= 1) =>
       /\ ev'.caught = readFaults /\ ev'.printed >= readFaults
       /\ readFaults' = 0
       /\ ~ev'.thrown
       /\ ev'.reads = 1
       /\ active' /\ activePrompt'.set /\ ~activePrompt'.settled
       /\ input' = <<>> /\ cursor' = 0]_vars

C29_Witness ==
  /\ ev.op = "prompt" /\ ev.caught = MaxReadFaults /\ ev.reads = 1
  /\ active /\ activePrompt.set /\ readFaults = 0

C32_ActiveOnlyWhenIdle == active => processCount = 0

\* C33: the dispatch of '!!' terminates: whatever the history holds, '!!'
\* itself included, a dispatched line ends in a branch that is not '!!' or
\* in the empty-history message, never in a recursion without end
C33_RepeatLastTerminates ==
  (ev.op = "data" /\ ev.dispatched >= 1) =>
    (ev.branch # "overflow" /\ ~ev.thrown)

\* the characters of a chunk up to and with its first carriage return
RECURSIVE UpToReturn(_)
UpToReturn(chars) ==
  IF chars = <<>> THEN <<>>
  ELSE IF Head(chars) = CR THEN <<CR>>
  ELSE <<Head(chars)>> \o UpToReturn(Tail(chars))

\* C34: once a carriage return inside a pasted block has submitted the
\* line, the rest of the block is not applied as edits: the line after the
\* block is the line after its part up to the carriage return, whatever
\* command was submitted
C34_RestOfPasteDropped ==
  [][LET data == NormalizeNewlines(ev'.arg)
     IN (/\ Accepted /\ ~activeCharPrompt.set /\ ev'.completes >= 1
         /\ Len(ev'.arg) > 3 /\ ev'.arg[1] # ESC
         /\ \E i \in DOMAIN data : data[i] = CR
         /\ UpToReturn(data) # data) =>
          input' = ForEachChar(State("data", ev'.arg),
                               UpToReturn(data)).input]_vars

\* C35: history-previous (Up arrow, CTRL+P) replaces the line with the
\* older entry and puts the cursor at its end, and leaves line and cursor
\* unchanged when there is no older entry; history-next (Down arrow,
\* CTRL+N) replaces the line with the newer entry and puts the cursor at its
\* end, and empties the line with the cursor at 0 when there is no newer
\* entry
C35_HistoryKeysSetLine ==
  [][/\ (Accepted /\ ev'.arg \in PrevKeys) =>
          IF histCursor > 0
          THEN /\ input' = entries[histCursor]
               /\ cursor' = Len(entries[histCursor])
          ELSE UNCHANGED <<input, cursor>>
     /\ (Accepted /\ ev'.arg \in NextKeys) =>
          IF histCursor + 1 < Len(entries)
          THEN /\ input' = entries[histCursor + 2]
               /\ cursor' = Len(entries[histCursor + 2])
          ELSE input' = <<>> /\ cursor' = 0]_vars

C35_Witness ==
  /\ ev.op = "data" /\ ev.arg = DOWN_ARROW
  /\ entries = <<<<"y">>, <<"y", "y">>>> /\ histCursor = 1
  /\ input = <<"y", "y">> /\ cursor = 2

\* C36: whenever the shell is active between two steps a line PendingRead
\* is outstanding; after handleReadComplete the shell is inactive and no
\* line PendingRead is outstanding until the next prompt is issued
C36_ActiveHasPendingRead ==
  [][/\ active' => (activePrompt'.set /\ ~activePrompt'.settled)
     /\ (ev'.completes >= 1 /\ ev'.reads = 0) =>
          (~active' /\ ~activePrompt'.set)
     /\ (~activePrompt.set /\ ev'.reads = 0) =>
          (~active' /\ ~activePrompt'.set)]_vars

C36_Witness ==
  /\ ev.op = "timer" /\ ev.activations = 1 /\ ev.reads = 1
  /\ active /\ activePrompt.set /\ ~activePrompt.settled
  /\ entries = <<HELP>> /\ processCount = 0

\* C37: while the listener is registered every send event produces exactly
\* one receive event, with the callback's result as data when the callback
\* resolved and with the error message when it rejected, never both and
\* never neither; a send event after the cleanup produces none
C37_OneReceivePerSend ==
  \A i \in DOMAIN calls :
    LET mine == SelectSeq(receives, LAMBDA r : r.of = i)
        outcome == calls[i].outcome
    IN /\ ~calls[i].heard => mine = <<>>
       /\ (calls[i].heard /\ outcome.kind = "resolve") =>
            mine = <<[of |-> i, key |-> "data", value |-> outcome.value]>>
       /\ (calls[i].heard /\ outcome.kind = "reject") =>
            /\ Len(mine) = 1
            /\ mine[1].key = "error"
            /\ outcome.value.type = "Error" => mine[1].value = outcome.value

====
